---- MODULE Spec2Model ----
(***************************************************************************)
(* A model of the raiderio client: query validation, request construction, *)
(* the HTTP round trip of getAPIResponse and the decoding of the response. *)
(* A call of a Get* method is split at its only blocking points, the       *)
(* HttpClient.Do call and the read of the response body.                   *)
(***************************************************************************)
EXTENDS Integers, Sequences, FiniteSets, TLC

\* ------------------------------------------------------------------ bounds
\* Limit and Page of a RaidQuery range over -MaxPaging..MaxPaging.
MaxPaging == 2

\* An upstream error message of the classifier's specification SpecClassify
\* has at most MaxPhrases phrases.
MaxPhrases == 2
MaxRoster == 2
MaxRaids == 2

\* ------------------------------------------------------- program constants
StatusOK == 200

baseUrl == "https://raider.io/api"

NORMAL_RAID == "normal"
HEROIC_RAID == "heroic"
MYTHIC_RAID == "mythic"

ErrInvalidRegion == "invalid region"
ErrInvalidRealm == "invalid realm"
ErrInvalidCharName == "invalid character name"
ErrInvalidGuildName == "invalid guild name"
ErrInvalidRaidName == "invalid raid name"
ErrInvalidBoss == "invalid boss"
ErrInvalidRaidDiff == "invalid raid difficulty"
ErrInvalidRaid_fieldMissing == "guild raid rankings field missing from api response"
ErrInvalidRaid == "invalid raid"
ErrCharacterNotFound == "character not found"
ErrGuildNotFound == "guild not found"
ErrUnsupportedExpac == "unsupported expansion"
ErrLimitOutOfBounds == "limit must be a positive int"
ErrPageOutOfBounds == "page must be a positive int"
ErrUnexpected == "unexpected error"
ErrGuildRaidRankingsMissing == "guild raid rankings field missing from api response"
ErrHttpTimeout == "raiderio api request timeout"

ErrParsingUrl == "error parsing request URL"
ErrCreatingRequest == "error creating HTTP request"
ErrReadingBody == "error reading response body"
ErrJsonUnmarshal == "json: cannot unmarshal"

\* ------------------------------------------------------------ nil values
\* A nil error, a nil *regions.Region and a nil result pointer.
NilError == "<nil>"
NilPtr == [nil |-> TRUE]
NilResult == [kind |-> "nil"]
NoRequest == [sent |-> FALSE]
NoResponse == [delivered |-> FALSE]
NoCall == [op |-> "none"]

\* ------------------------------------------------------------ enumerations
\* The slugs of the regions the regions package enumerates.
RegionSlugs == {"us", "eu", "tw", "kr", "cn", "world"}

\* ------------------------------------------------------------- input sets
Callers == {"g1", "g2"}

RegionPtrs == {NilPtr, [Slug |-> "us"], [Slug |-> "badregion"]}
RaidSlugs == {"", "nerubar-palace"}
BossSlugs == {"", "queen-ansurek"}
RealmSlugs == {"", "illidan"}
GuildNames == {"", "warpath"}
CharNames == {"", "highervalue"}
Difficulties == {"", NORMAL_RAID, HEROIC_RAID, MYTHIC_RAID, "invalid-difficulty"}
Paging == (-MaxPaging)..MaxPaging
ExpansionIds == {2, 10}
AccessKeys == {"", "test_key"}
ApiUrls == {baseUrl \o "/v1", "http://bad host"}
\* The Client values: NewClient's, and those with the exported ApiUrl and
\* AccessKey set by the caller.
Clients ==
  [ApiUrl : ApiUrls, AccessKey : AccessKeys, HttpClient : {"&http.Client{}"}]
Statuses == {StatusOK, 204, 404}
CtxStates == {"live", "expired", "canceled"}

\* The phrases an upstream error message is made of: the classifier's
\* patterns and a text that matches none of them.
Phrases ==
  {"Failed to find region", "Failed to find realm",
   "Could not find requested character", "Could not find requested guild",
   "Requested unsupported expansion_id", "Could not find requested raid",
   "Internal Server Error"}

\* A message is a sequence of phrases; the empty message is <<>>.
Messages == {<<>>} \cup {<<ph>> : ph \in Phrases}

\* The messages of up to MaxPhrases phrases, and the bodies that carry them.
WideMessages == UNION {[1..n -> Phrases] : n \in 0..MaxPhrases}

WideBodies ==
  {[json |-> "malformed", message |-> <<>>]}
    \cup {[json |-> j, message |-> m] : j \in {"mismatch", "ok"}, m \in WideMessages}

\* A response body: malformed JSON, JSON whose types do not fit the target
\* struct, or JSON that fits.  message is the value of its "message" key.
Bodies ==
  {[json |-> "malformed", message |-> <<>>]}
    \cup {[json |-> j, message |-> m] : j \in {"mismatch", "ok"}, m \in Messages}

\* ----------------------------------------------------------------- int64
\* A 64-bit integer in two's complement: four limbs of 16 bits, the least
\* significant first.
Limb == 65536

\* The int64 of a non-negative number below 2^31.
int64(n) == <<n % Limb, n \div Limb, 0, 0>>

\* time.Millisecond, 1000000 nanoseconds.
Millisecond == <<16960, 15, 0, 0>>

\* a * b on int64: the product modulo 2^64.
mul64(a, b) ==
  LET col(k) ==
        LET s[i \in 0..k] == IF i = 0 THEN 0 ELSE s[i - 1] + a[i] * b[k + 1 - i]
        IN  s[k]
      carry[k \in 1..4] == IF k = 1 THEN 0 ELSE (col(k - 1) + carry[k - 1]) \div Limb
  IN  [k \in 1..4 |-> (col(k) + carry[k]) % Limb]

\* ------------------------------------------------------------ wire payloads
\* The roster entries of a boss-kill response: character.name, class.slug,
\* spec.slug, realm.slug, region.slug, talentLoadout.loadoutText and
\* itemLevelEquipped, the last in tenths.
RosterEntries ==
  {[name |-> "highervalue", class |-> "warlock", spec |-> "destruction",
    realm |-> "illidan", region |-> "us", loadoutText |-> "CsQA",
    itemLevelTenths |-> 6265],
   [name |-> "drjay", class |-> "priest", spec |-> "holy",
    realm |-> "area-52", region |-> "us", loadoutText |-> "",
    itemLevelTenths |-> 6300],
   [name |-> "thdlock", class |-> "warlock", spec |-> "affliction",
    realm |-> "tarren-mill", region |-> "eu", loadoutText |-> "CkQA",
    itemLevelTenths |-> 6199]}

Rosters == UNION {[1..n -> RosterEntries] : n \in 0..MaxRoster}

\* The values of kill.durationMs: 0, 125000, 9223372036854 and 9223372036855.
Durations ==
  {int64(0), int64(125000), <<23286, 31696, 2147, 0>>, <<23287, 31696, 2147, 0>>}

\* The values of a rank or count key.
Ranks == {-1, 0, 1}

\* What a JSON object without the data keys decodes to.
ZeroPayload == [rank |-> 0, durationMs |-> int64(0), roster |-> <<>>]

Payloads ==
  [rank : {0}, durationMs : Durations, roster : Rosters]
    \cup [rank : Ranks, durationMs : {int64(0)}, roster : {<<>>}]

\* The bodies that carry data: JSON that fits the target struct, and one that
\* is no JSON.
DataBodies ==
  {[json |-> "malformed", message |-> <<>>]}
    \cup {[json |-> "ok", message |-> <<>>, payload |-> pl] : pl \in Payloads}

\* ------------------------------------------------------ decoded collections
\* The Raid structs of a Raids collection, without their Encounters slice,
\* and the encounter lists their slices start with.
RaidHeaders ==
  [Id : {14, 15}, Slug : {"nerubar-palace", "nerubar-palace-mythic"},
   Name : {"Nerub-ar Palace"}]

EncounterLists ==
  {<<>>, <<[Id |-> 2902, Slug |-> "ulgrax-the-devourer", Name |-> "Ulgrax"]>>}

\* The slugs a raid or a ranking is looked up by.
LookupSlugs ==
  {"", "nerubar", "nerubar-palace", "nerubar-palace-mythic", "invalid raid slug"}

\* A nil map.
NilMap == [nil |-> TRUE]

\* A GuildRaidRanking, with its Mythic.World rank.
GuildRaidRankingOf(slug, world) ==
  [RaidSlug |-> slug, Mythic |-> [World |-> world]]

\* The Guild values a lookup is made on: without a RaidRankings map, with an
\* empty one, and with maps that have entries.
Guilds ==
  {[Name |-> "warpath", RaidRankings |-> NilMap],
   [Name |-> "warpath", RaidRankings |-> [s \in {} |-> 0]]}
    \cup {[Name |-> "warpath",
           RaidRankings |-> [s \in keys |-> GuildRaidRankingOf(s, 92)]] :
            keys \in {{"nerubar-palace"}, {"nerubar-palace", "nerubar-palace-mythic"}}}

CharacterQueries ==
  [Region : RegionPtrs, Realm : RealmSlugs, Name : CharNames,
   Gear : BOOLEAN, TalentLoadout : BOOLEAN]
GuildQueries ==
  [Region : RegionPtrs, Realm : RealmSlugs, Name : GuildNames,
   Members : BOOLEAN, RaidProgression : BOOLEAN, RaidRankings : BOOLEAN]
RaidQueries ==
  [Slug : RaidSlugs, Difficulty : Difficulties, Region : RegionPtrs,
   Realm : RealmSlugs, Limit : Paging, Page : Paging]
GuildBossKillQueries ==
  [Region : RegionPtrs, Realm : RealmSlugs, GuildName : GuildNames,
   RaidSlug : RaidSlugs, BossSlug : BossSlugs, Difficulty : Difficulties]
BossRankingsQueries ==
  [RaidSlug : RaidSlugs, BossSlug : BossSlugs, Difficulty : Difficulties,
   Region : RegionPtrs, Realm : RealmSlugs]
HallOfFameQueries ==
  [RaidSlug : RaidSlugs, Difficulty : Difficulties, Region : RegionPtrs]
RaidProgressionQueries ==
  [RaidSlug : RaidSlugs, Difficulty : Difficulties, Region : RegionPtrs]

\* The queries and bodies of the calls that run at the same time.
SmallCharacterQueries ==
  {cq \in CharacterQueries :
     cq.Region = [Slug |-> "us"] /\ cq.Realm = "illidan" /\ ~cq.TalentLoadout}

SmallGuildQueries ==
  {gq \in GuildQueries :
     /\ gq.Region = [Slug |-> "us"]
     /\ gq.Realm = "illidan"
     /\ ~gq.RaidProgression
     /\ ~gq.RaidRankings}

SmallBodies ==
  {[json |-> "malformed", message |-> <<>>],
   [json |-> "ok", message |-> <<>>],
   [json |-> "ok", message |-> <<"Failed to find realm">>]}

\* ------------------------------------------------------------------ state
VARIABLES
  client,   \* the Client: ApiUrl, AccessKey and HttpClient
  pc,       \* per caller: "idle", "waiting" (in Do), "reading" (in ReadAll), "done"
  call,     \* per caller: the Get* method called, its query, the context's state
            \* at the time of the call
  ctx,      \* per caller: the state of the context passed to the call
  req,      \* per caller: the request handed to HttpClient.Do
  doCalls,  \* per caller: how often the call has invoked HttpClient.Do
  resp,     \* per caller: the response the transport delivered
  ret,      \* per caller: the (result, error) pair the call returned
  raids,    \* the Raids collection the callers hold: its Raid structs
  mem       \* the backing arrays of the Encounters slices of the Raid structs

vars == <<client, pc, call, ctx, req, doCalls, resp, ret, raids, mem>>

\* ------------------------------------------------------------- url.Values
\* url.Values is a map from a key to the list of its values.
EmptyValues == [k \in {} |-> <<>>]

\* url.Values.Add appends the value to the key's list.
Add(v, key, value) ==
  [k \in DOMAIN v \cup {key} |->
     IF k = key
       THEN (IF key \in DOMAIN v THEN Append(v[key], value) ELSE <<value>>)
       ELSE v[k]]

\* url.Values.Set replaces the key's list by the one value.
Set(v, key, value) ==
  [k \in DOMAIN v \cup {key} |-> IF k = key THEN <<value>> ELSE v[k]]

\* The keys the client uses, in the order sort.Strings gives them.
SortedKeys ==
  <<"access_key", "boss", "difficulty", "expansion_id", "fields", "guild",
    "limit", "name", "page", "raid", "realm", "region">>

RECURSIVE pairsOf(_, _)
pairsOf(key, values) ==
  IF values = <<>> THEN <<>>
  ELSE <<[k |-> key, v |-> Head(values)]>> \o pairsOf(key, Tail(values))

RECURSIVE encodeFrom(_, _)
encodeFrom(v, i) ==
  IF i > Len(SortedKeys) THEN <<>>
  ELSE (IF SortedKeys[i] \in DOMAIN v
          THEN pairsOf(SortedKeys[i], v[SortedKeys[i]]) ELSE <<>>)
       \o encodeFrom(v, i + 1)

\* url.Values.Encode: the key=value pairs of the query string, sorted by key.
Encode(v) == encodeFrom(v, 1)

\* url.URL.Query: the pairs of a query string parsed back into url.Values.
RECURSIVE ParseQuery(_)
ParseQuery(raw) ==
  IF raw = <<>> THEN EmptyValues
  ELSE LET rest == ParseQuery(SubSeq(raw, 1, Len(raw) - 1))
           last == raw[Len(raw)]
       IN  Add(rest, last.k, last.v)

\* strings.Join(fields, ",")
RECURSIVE Join(_)
Join(fields) ==
  IF fields = <<>> THEN ""
  ELSE IF Len(fields) = 1 THEN fields[1]
  ELSE fields[1] \o "," \o Join(Tail(fields))

\* fmt.Sprintf("%d", n)
Sprintf_d(n) == ToString(n)

\* url.Parse accepts the URLs of this model except the one with a space in
\* its host name.
urlParses(u) == u.base # "http://bad host"

\* strings.Contains(message, pattern) on a message made of phrases.
Contains(message, pattern) == \E i \in 1..Len(message) : message[i] = pattern

\* ---------------------------------------------------------------- queries
\* The field list a CharacterQuery's include flags stand for.
characterFields(cq) ==
  (IF cq.Gear THEN <<"gear">> ELSE <<>>)
    \o (IF cq.TalentLoadout THEN <<"talents">> ELSE <<>>)

\* The field list a GuildQuery's include flags stand for.
guildFields(gq) ==
  (IF gq.Members THEN <<"members">> ELSE <<>>)
    \o (IF gq.RaidProgression THEN <<"raid_progression">> ELSE <<>>)
    \o (IF gq.RaidRankings THEN <<"raid_rankings">> ELSE <<>>)

\* Region must be a non-nil reference to one of the enumerated regions.
regionValid(r) == r # NilPtr /\ r.Slug \in RegionSlugs

validateCharacterQuery(cq) ==
  IF cq.Name = "" THEN ErrInvalidCharName
  ELSE IF cq.Realm = "" THEN ErrInvalidRealm
  ELSE IF ~regionValid(cq.Region) THEN ErrInvalidRegion
  ELSE NilError

createGuildQuery(gq) ==
  IF gq.Name = "" THEN ErrInvalidGuildName
  ELSE IF gq.Realm = "" THEN ErrInvalidRealm
  ELSE IF ~regionValid(gq.Region) THEN ErrInvalidRegion
  ELSE NilError

raidDifficltyValid_noNormal(d) == d = HEROIC_RAID \/ d = MYTHIC_RAID

raidDifficltyValid(d) == d = NORMAL_RAID \/ d = HEROIC_RAID \/ d = MYTHIC_RAID

validateGuildBossKillQuery_namesFirst(q) ==
  IF q.Realm = "" THEN ErrInvalidRealm
  ELSE IF q.GuildName = "" THEN ErrInvalidGuildName
  ELSE IF q.RaidSlug = "" THEN ErrInvalidRaidName
  ELSE IF q.BossSlug = "" THEN ErrInvalidBoss
  ELSE IF q.Region = NilPtr THEN ErrInvalidRegion
  ELSE IF q.Difficulty = "" \/ ~raidDifficltyValid(q.Difficulty) THEN ErrInvalidRaidDiff
  ELSE NilError

validateGuildBossKillQuery(q) ==
  IF q.Region = NilPtr THEN ErrInvalidRegion
  ELSE IF q.Realm = "" THEN ErrInvalidRealm
  ELSE IF q.GuildName = "" THEN ErrInvalidGuildName
  ELSE IF q.RaidSlug = "" THEN ErrInvalidRaidName
  ELSE IF q.BossSlug = "" THEN ErrInvalidBoss
  ELSE IF q.Difficulty = "" \/ ~raidDifficltyValid(q.Difficulty) THEN ErrInvalidRaidDiff
  ELSE NilError

validateRaidRankingsQuery_pageFirst(rq) ==
  IF rq.Slug = "" THEN ErrInvalidRaidName
  ELSE IF rq.Difficulty = "" \/ ~raidDifficltyValid(rq.Difficulty) THEN ErrInvalidRaidDiff
  ELSE IF rq.Region = NilPtr THEN ErrInvalidRegion
  ELSE IF rq.Page < 0 THEN ErrPageOutOfBounds
  ELSE IF rq.Limit < 0 THEN ErrLimitOutOfBounds
  ELSE NilError

validateRaidRankingsQuery(rq) ==
  IF rq.Slug = "" THEN ErrInvalidRaidName
  ELSE IF rq.Difficulty = "" \/ ~raidDifficltyValid(rq.Difficulty) THEN ErrInvalidRaidDiff
  ELSE IF rq.Region = NilPtr THEN ErrInvalidRegion
  ELSE IF rq.Limit < 0 THEN ErrLimitOutOfBounds
  ELSE IF rq.Page < 0 THEN ErrPageOutOfBounds
  ELSE NilError

validateBossRankingsQuery_noBoss(q) ==
  IF q.RaidSlug = "" THEN ErrInvalidRaidName
  ELSE IF q.Difficulty = "" \/ ~raidDifficltyValid(q.Difficulty) THEN ErrInvalidRaidDiff
  ELSE IF q.Region = NilPtr THEN ErrInvalidRegion
  ELSE NilError

validateBossRankingsQuery(q) ==
  IF q.RaidSlug = "" THEN ErrInvalidRaidName
  ELSE IF q.BossSlug = "" THEN ErrInvalidBoss
  ELSE IF q.Difficulty = "" \/ ~raidDifficltyValid(q.Difficulty) THEN ErrInvalidRaidDiff
  ELSE IF q.Region = NilPtr THEN ErrInvalidRegion
  ELSE NilError

validateHallOfFameQuery_regionFirst(q) ==
  IF q.RaidSlug = "" THEN ErrInvalidRaidName
  ELSE IF q.Region = NilPtr THEN ErrInvalidRegion
  ELSE IF q.Difficulty = "" \/ ~raidDifficltyValid(q.Difficulty) THEN ErrInvalidRaidDiff
  ELSE NilError

validateHallOfFameQuery(q) ==
  IF q.RaidSlug = "" THEN ErrInvalidRaidName
  ELSE IF q.Difficulty = "" \/ ~raidDifficltyValid(q.Difficulty) THEN ErrInvalidRaidDiff
  ELSE IF q.Region = NilPtr THEN ErrInvalidRegion
  ELSE NilError

validateRaidProgressionQuery(q) ==
  IF q.RaidSlug = "" THEN ErrInvalidRaidName
  ELSE IF q.Difficulty = "" \/ ~raidDifficltyValid(q.Difficulty) THEN ErrInvalidRaidDiff
  ELSE IF q.Region = NilPtr THEN ErrInvalidRegion
  ELSE NilError

\* ------------------------------------------------------- request building
characterParams(cq) ==
  LET p0 == Add(Add(Add(EmptyValues, "region", cq.Region.Slug),
                    "realm", cq.Realm), "name", cq.Name)
  IN  IF Len(characterFields(cq)) > 0
        THEN Add(p0, "fields", Join(characterFields(cq))) ELSE p0

\* A variant that adds one fields parameter for each field.
guildParams_repeatedFields(gq) ==
  LET p0 == Add(Add(Add(EmptyValues, "region", gq.Region.Slug),
                    "realm", gq.Realm), "name", gq.Name)
      addAll[i \in 0..Len(guildFields(gq))] ==
        IF i = 0 THEN p0 ELSE Add(addAll[i - 1], "fields", guildFields(gq)[i])
  IN  addAll[Len(guildFields(gq))]

guildParams(gq) ==
  LET p0 == Add(Add(Add(EmptyValues, "region", gq.Region.Slug),
                    "realm", gq.Realm), "name", gq.Name)
  IN  IF Len(guildFields(gq)) > 0
        THEN Add(p0, "fields", Join(guildFields(gq))) ELSE p0

raidsParams(e) == Add(EmptyValues, "expansion_id", Sprintf_d(e))

raidRankingsParams_alwaysLimit(rq) ==
  LET p0 == Add(Add(Add(EmptyValues, "raid", rq.Slug),
                    "difficulty", rq.Difficulty), "region", rq.Region.Slug)
      p1 == IF rq.Realm # "" THEN Add(p0, "realm", rq.Realm) ELSE p0
      p2 == Add(p1, "limit", Sprintf_d(rq.Limit))
  IN  IF rq.Page # 0 THEN Add(p2, "page", Sprintf_d(rq.Page)) ELSE p2

raidRankingsParams(rq) ==
  LET p0 == Add(Add(Add(EmptyValues, "raid", rq.Slug),
                    "difficulty", rq.Difficulty), "region", rq.Region.Slug)
      p1 == IF rq.Realm # "" THEN Add(p0, "realm", rq.Realm) ELSE p0
      p2 == IF rq.Limit # 0 THEN Add(p1, "limit", Sprintf_d(rq.Limit)) ELSE p1
  IN  IF rq.Page # 0 THEN Add(p2, "page", Sprintf_d(rq.Page)) ELSE p2

guildBossKillParams(q) ==
  Add(Add(Add(Add(Add(Add(EmptyValues, "raid", q.RaidSlug),
                          "difficulty", q.Difficulty), "region", q.Region.Slug),
              "realm", q.Realm), "guild", q.GuildName), "boss", q.BossSlug)

\* A variant that adds the realm whether or not it is empty.
bossRankingsParams_alwaysRealm(q) ==
  LET p0 == Add(Add(Add(Add(EmptyValues, "raid", q.RaidSlug), "boss", q.BossSlug),
                    "difficulty", q.Difficulty), "region", q.Region.Slug)
  IN  Add(p0, "realm", q.Realm)

bossRankingsParams(q) ==
  LET p0 == Add(Add(Add(Add(EmptyValues, "raid", q.RaidSlug), "boss", q.BossSlug),
                    "difficulty", q.Difficulty), "region", q.Region.Slug)
  IN  IF q.Realm # "" THEN Add(p0, "realm", q.Realm) ELSE p0

hallOfFameParams(q) ==
  Add(Add(Add(EmptyValues, "raid", q.RaidSlug),
          "difficulty", q.Difficulty), "region", q.Region.Slug)

raidProgressionParams(q) ==
  Add(Add(Add(EmptyValues, "raid", q.RaidSlug),
          "difficulty", q.Difficulty), "region", q.Region.Slug)

\* fmt.Sprintf("%s/<path>?%s", c.ApiUrl, params.Encode())
reqUrlOf(c, path, params) ==
  [base |-> c.ApiUrl, path |-> path, rawQuery |-> Encode(params)]

\* -------------------------------------------------------- getAPIResponse
\* A variant that replaces the query string by the access key alone.
withAccessKey_replace(c, reqUrl) ==
  IF c.AccessKey # ""
    THEN [reqUrl EXCEPT
            !.rawQuery = Encode(Set(EmptyValues, "access_key", c.AccessKey))]
    ELSE reqUrl

\* The URL after the access key, when one is configured, is merged in.
withAccessKey(c, reqUrl) ==
  IF c.AccessKey # ""
    THEN [reqUrl EXCEPT
            !.rawQuery = Encode(Set(ParseQuery(reqUrl.rawQuery),
                                    "access_key", c.AccessKey))]
    ELSE reqUrl

\* The error getAPIResponse returns before it calls HttpClient.Do, if any.
requestError(c, reqUrl) ==
  IF c.AccessKey # "" /\ ~urlParses(reqUrl) THEN ErrParsingUrl
  ELSE IF ~urlParses(withAccessKey(c, reqUrl)) THEN ErrCreatingRequest
  ELSE NilError

\* A context error becomes the timeout error, any other error is passed on.
wrapHttpError(err) ==
  IF err \in {"context deadline exceeded", "context canceled"}
    THEN ErrHttpTimeout ELSE err

\* A variant that tests the realm pattern before the region pattern.
wrapApiError_realmFirst(responseBody) ==
  IF Contains(responseBody.Message, "Failed to find realm") THEN ErrInvalidRealm
  ELSE IF Contains(responseBody.Message, "Failed to find region") THEN ErrInvalidRegion
  ELSE IF Contains(responseBody.Message, "Could not find requested character")
    THEN ErrCharacterNotFound
  ELSE IF Contains(responseBody.Message, "Could not find requested guild")
    THEN ErrGuildNotFound
  ELSE IF Contains(responseBody.Message, "Requested unsupported expansion_id")
    THEN ErrUnsupportedExpac
  ELSE IF Contains(responseBody.Message, "Could not find requested raid")
    THEN ErrInvalidRaid
  ELSE ErrUnexpected

\* The error of the first pattern the envelope's message contains.
wrapApiError(responseBody) ==
  IF Contains(responseBody.Message, "Failed to find region") THEN ErrInvalidRegion
  ELSE IF Contains(responseBody.Message, "Failed to find realm") THEN ErrInvalidRealm
  ELSE IF Contains(responseBody.Message, "Could not find requested character")
    THEN ErrCharacterNotFound
  ELSE IF Contains(responseBody.Message, "Could not find requested guild")
    THEN ErrGuildNotFound
  ELSE IF Contains(responseBody.Message, "Requested unsupported expansion_id")
    THEN ErrUnsupportedExpac
  ELSE IF Contains(responseBody.Message, "Could not find requested raid")
    THEN ErrInvalidRaid
  ELSE ErrUnexpected

\* json.Unmarshal(body, &responseBody): a body that is not JSON leaves the
\* envelope zero; a type error in another key still fills Message.
apiErrorResponse(body) ==
  [Message |-> IF body.json = "malformed" THEN <<>> ELSE body.message,
   err |-> body.json # "ok"]

\* A variant that takes only 4xx and 5xx for an error state.
isErrorStatus_from400(status) == status >= 400

\* resp.StatusCode != 200
isErrorStatus(status) == status # StatusOK

\* ---------------------------------------------------------------- decoding
\* json.Unmarshal into the endpoint's struct, then (nil, error) or (&v, nil).
\* The data a body carries; the keys a JSON object lacks leave the target's
\* fields at their zero values.
payloadOf(body) ==
  IF "payload" \in DOMAIN body THEN body.payload ELSE ZeroPayload

flatDecode_partial(kind, body, msg) ==
  IF body.json # "ok" THEN [result |-> [kind |-> kind, Rank |-> 0], err |-> msg]
  ELSE [result |-> [kind |-> kind, Rank |-> payloadOf(body).rank], err |-> NilError]

\* Rank stands for the integer fields of the struct: json.Unmarshal copies
\* the number of the wire into them.
flatDecode(kind, body, msg) ==
  IF body.json # "ok" THEN [result |-> NilResult, err |-> msg]
  ELSE [result |-> [kind |-> kind, Rank |-> payloadOf(body).rank], err |-> NilError]

unmarshalGuild(body) ==
  flatDecode("Guild", body, "error unmarshalling guild profile")

\* A variant that builds the roster from its last entry to its first.
unmarshalBossKillRoster_reversed(k) ==
  [i \in 1..Len(k.roster) |->
     [Name |-> k.roster[Len(k.roster) + 1 - i].name,
      Class |-> k.roster[Len(k.roster) + 1 - i].class,
      Spec |-> k.roster[Len(k.roster) + 1 - i].spec,
      Realm |-> k.roster[Len(k.roster) + 1 - i].realm,
      Region |-> k.roster[Len(k.roster) + 1 - i].region,
      TalentLoadout |-> [LoadoutText |-> k.roster[Len(k.roster) + 1 - i].loadoutText],
      Gear |-> [ItemLevelEquipped |-> k.roster[Len(k.roster) + 1 - i].itemLevelTenths \div 10]]]

\* One Character for each roster entry, in the order of the roster.
unmarshalBossKillRoster(k) ==
  [i \in 1..Len(k.roster) |->
     [Name |-> k.roster[i].name,
      Class |-> k.roster[i].class,
      Spec |-> k.roster[i].spec,
      Realm |-> k.roster[i].realm,
      Region |-> k.roster[i].region,
      TalentLoadout |-> [LoadoutText |-> k.roster[i].loadoutText],
      Gear |-> [ItemLevelEquipped |-> k.roster[i].itemLevelTenths \div 10]]]

\* A variant that takes durationMs for a duration as it is.
unmarshalGuildBossKill_rawMs(body) ==
  IF body.json # "ok" THEN [result |-> NilResult, err |-> ErrJsonUnmarshal]
  ELSE [result |->
          [kind |-> "BossKill",
           Kill |-> [Duration |-> payloadOf(body).durationMs],
           Roster |-> unmarshalBossKillRoster(payloadOf(body))],
        err |-> NilError]

\* json.Unmarshal into bossKillResp, then the BossKill built from it.
unmarshalGuildBossKill(body) ==
  IF body.json # "ok" THEN [result |-> NilResult, err |-> ErrJsonUnmarshal]
  ELSE [result |->
          [kind |-> "BossKill",
           Kill |-> [Duration |-> mul64(payloadOf(body).durationMs, Millisecond)],
           Roster |-> unmarshalBossKillRoster(payloadOf(body))],
        err |-> NilError]

\* A variant in which GetCharacter returns the zero Character when the body
\* does not decode.
decodeBody_zeroOnError(op, body) ==
  CASE op = "GetCharacter" ->
         [result |-> [kind |-> "Character", Rank |-> 0], err |-> NilError]
    [] op = "GetGuild" -> unmarshalGuild(body)
    [] op = "GetRaids" -> flatDecode("Raids", body, "error unmarshalling raids")
    [] op = "GetRaidRankings" ->
         flatDecode("RaidRankings", body, "error unmarshalling raid rankings")
    [] op = "GetGuildBossKill" -> unmarshalGuildBossKill(body)
    [] op = "GetBossRankings" ->
         flatDecode("BossRankings", body, "error unmarshalling boss rankings")
    [] op = "GetHallOfFame" ->
         flatDecode("HallOfFame", body, "error unmarshalling hall of fame")
    [] op = "GetRaidProgression" ->
         flatDecode("RaidProgressionResponse", body,
                    "error unmarshalling raid progression")

\* What a Get* method does with the body getAPIResponse returned.
decodeBody(op, body) ==
  CASE op = "GetCharacter" ->
         flatDecode("Character", body, "error unmarshalling character profile")
    [] op = "GetGuild" -> unmarshalGuild(body)
    [] op = "GetRaids" -> flatDecode("Raids", body, "error unmarshalling raids")
    [] op = "GetRaidRankings" ->
         flatDecode("RaidRankings", body, "error unmarshalling raid rankings")
    [] op = "GetGuildBossKill" -> unmarshalGuildBossKill(body)
    [] op = "GetBossRankings" ->
         flatDecode("BossRankings", body, "error unmarshalling boss rankings")
    [] op = "GetHallOfFame" ->
         flatDecode("HallOfFame", body, "error unmarshalling hall of fame")
    [] op = "GetRaidProgression" ->
         flatDecode("RaidProgressionResponse", body,
                    "error unmarshalling raid progression")

\* ---------------------------------------------------------------- lookups
\* A variant of the scan that returns the last raid with the slug.
getRaidBySlug_last(rs, slug) ==
  LET scan[i \in 0..Len(rs)] ==
        IF i = 0 THEN [result |-> NilResult, err |-> ErrInvalidRaid]
        ELSE IF rs[i].Slug = slug
          THEN [result |-> [kind |-> "Raid", raid |-> rs[i]], err |-> NilError]
        ELSE scan[i - 1]
  IN  scan[Len(rs)]

\* The loop of GetRaidBySlug: a pointer to a copy of the first Raid struct
\* whose Slug is slug, or ErrInvalidRaid.  The Encounters slice of the copy
\* points to the same backing array as the one of the struct.
getRaidBySlug(rs, slug) ==
  LET scan[i \in 1..(Len(rs) + 1)] ==
        IF i > Len(rs) THEN [result |-> NilResult, err |-> ErrInvalidRaid]
        ELSE IF rs[i].Slug = slug
          THEN [result |-> [kind |-> "Raid", raid |-> rs[i]], err |-> NilError]
        ELSE scan[i + 1]
  IN  scan[1]

\* Guild.GetGuildRaidRankBySlug: the entry of the slug, ErrInvalidRaid when
\* the map has no such entry, the field-missing error when there is no map.
getGuildRaidRankBySlug(g, slug) ==
  IF g.RaidRankings = NilMap
    THEN [result |-> NilResult, err |-> ErrGuildRaidRankingsMissing]
  ELSE IF slug \notin DOMAIN g.RaidRankings
    THEN [result |-> NilResult, err |-> ErrInvalidRaid]
  ELSE [result |-> [kind |-> "GuildRaidRanking", rank |-> g.RaidRankings[slug]],
        err |-> NilError]

\* ------------------------------------------------------------------- Init
\* NewClient, followed by the caller's choice of the exported fields.
Init ==
  /\ client \in Clients
  /\ pc = [p \in Callers |-> "idle"]
  /\ call = [p \in Callers |-> NoCall]
  /\ ctx = [p \in Callers |-> "live"]
  /\ req = [p \in Callers |-> NoRequest]
  /\ doCalls = [p \in Callers |-> 0]
  /\ resp = [p \in Callers |-> NoResponse]
  /\ ret = [p \in Callers |-> [result |-> NilResult, err |-> NilError]]
  /\ raids = <<>>
  /\ mem = <<>>

\* ---------------------------------------------------------------- actions
\* A variant of enter that goes on after a paging error.
enter_ignorePaging(p, c, c0, verr, reqUrl) ==
  /\ call' = [call EXCEPT ![p] = [op |-> c.op, q |-> c.q, ctx0 |-> c0]]
  /\ ctx' = [ctx EXCEPT ![p] = c0]
  /\ resp' = [resp EXCEPT ![p] = NoResponse]
  /\ IF verr \notin {NilError, ErrLimitOutOfBounds, ErrPageOutOfBounds}
       THEN /\ pc' = [pc EXCEPT ![p] = "done"]
            /\ ret' = [ret EXCEPT ![p] = [result |-> NilResult, err |-> verr]]
            /\ UNCHANGED <<req, doCalls>>
       ELSE IF requestError(client, reqUrl) # NilError
       THEN /\ pc' = [pc EXCEPT ![p] = "done"]
            /\ ret' = [ret EXCEPT ![p] =
                         [result |-> NilResult, err |-> requestError(client, reqUrl)]]
            /\ UNCHANGED <<req, doCalls>>
       ELSE /\ pc' = [pc EXCEPT ![p] = "waiting"]
            /\ req' = [req EXCEPT ![p] =
                         [sent |-> TRUE, url |-> withAccessKey(client, reqUrl)]]
            /\ doCalls' = [doCalls EXCEPT ![p] = @ + 1]
            /\ UNCHANGED ret
  /\ UNCHANGED <<client, raids, mem>>

\* The part of a Get* method up to the point where HttpClient.Do blocks:
\* validation, then the request URL, then the head of getAPIResponse.
enter(p, c, c0, verr, reqUrl) ==
  /\ call' = [call EXCEPT ![p] = [op |-> c.op, q |-> c.q, ctx0 |-> c0]]
  /\ ctx' = [ctx EXCEPT ![p] = c0]
  /\ resp' = [resp EXCEPT ![p] = NoResponse]
  /\ IF verr # NilError
       THEN /\ pc' = [pc EXCEPT ![p] = "done"]
            /\ ret' = [ret EXCEPT ![p] = [result |-> NilResult, err |-> verr]]
            /\ UNCHANGED <<req, doCalls>>
       ELSE IF requestError(client, reqUrl) # NilError
       THEN /\ pc' = [pc EXCEPT ![p] = "done"]
            /\ ret' = [ret EXCEPT ![p] =
                         [result |-> NilResult, err |-> requestError(client, reqUrl)]]
            /\ UNCHANGED <<req, doCalls>>
       ELSE /\ pc' = [pc EXCEPT ![p] = "waiting"]
            /\ req' = [req EXCEPT ![p] =
                         [sent |-> TRUE, url |-> withAccessKey(client, reqUrl)]]
            /\ doCalls' = [doCalls EXCEPT ![p] = @ + 1]
            /\ UNCHANGED ret
  /\ UNCHANGED <<client, raids, mem>>

\* In Spec the callers take turns: a call starts when no other is running.
canStart(p) == \A o \in Callers : pc[o] = "idle"

GetCharacter(p) ==
  /\ canStart(p)
  /\ \E cq \in CharacterQueries, c0 \in CtxStates :
      enter(p, [op |-> "GetCharacter", q |-> cq], c0, validateCharacterQuery(cq),
            reqUrlOf(client, "/characters/profile", characterParams(cq)))

GetGuild(p) ==
  /\ canStart(p)
  /\ \E gq \in GuildQueries, c0 \in CtxStates :
      enter(p, [op |-> "GetGuild", q |-> gq], c0, createGuildQuery(gq),
            reqUrlOf(client, "/guilds/profile", guildParams(gq)))

\* A variant in which the call uses the access key up.
GetRaids_clearsKey(p) ==
  /\ canStart(p)
  /\ \E e \in ExpansionIds, c0 \in CtxStates :
       LET reqUrl == reqUrlOf(client, "/raiding/static-data", raidsParams(e))
       IN  /\ call' = [call EXCEPT ![p] =
                         [op |-> "GetRaids", q |-> [Expansion |-> e], ctx0 |-> c0]]
           /\ ctx' = [ctx EXCEPT ![p] = c0]
           /\ resp' = [resp EXCEPT ![p] = NoResponse]
           /\ IF requestError(client, reqUrl) # NilError
                THEN /\ pc' = [pc EXCEPT ![p] = "done"]
                     /\ ret' = [ret EXCEPT ![p] =
                                  [result |-> NilResult,
                                   err |-> requestError(client, reqUrl)]]
                     /\ UNCHANGED <<req, doCalls>>
                ELSE /\ pc' = [pc EXCEPT ![p] = "waiting"]
                     /\ req' = [req EXCEPT ![p] =
                                  [sent |-> TRUE, url |-> withAccessKey(client, reqUrl)]]
                     /\ doCalls' = [doCalls EXCEPT ![p] = @ + 1]
                     /\ UNCHANGED ret
  /\ client' = [client EXCEPT !.AccessKey = ""]
  /\ UNCHANGED <<raids, mem>>

GetRaids(p) ==
  /\ canStart(p)
  /\ \E e \in ExpansionIds, c0 \in CtxStates :
      enter(p, [op |-> "GetRaids", q |-> [Expansion |-> e]], c0, NilError,
            reqUrlOf(client, "/raiding/static-data", raidsParams(e)))

GetRaidRankings(p) ==
  /\ canStart(p)
  /\ \E rq \in RaidQueries, c0 \in CtxStates :
      enter(p, [op |-> "GetRaidRankings", q |-> rq], c0, validateRaidRankingsQuery(rq),
            reqUrlOf(client, "/raiding/raid-rankings", raidRankingsParams(rq)))

GetGuildBossKill(p) ==
  /\ canStart(p)
  /\ \E q \in GuildBossKillQueries, c0 \in CtxStates :
      enter(p, [op |-> "GetGuildBossKill", q |-> q], c0, validateGuildBossKillQuery(q),
            reqUrlOf(client, "/guilds/boss-kill", guildBossKillParams(q)))

\* A variant that looks at the context before it validates the query.
GetBossRankings_ctxFirst(p) ==
  /\ canStart(p)
  /\ \E q \in BossRankingsQueries, c0 \in CtxStates :
      enter(p, [op |-> "GetBossRankings", q |-> q], c0,
            IF c0 # "live" THEN ErrHttpTimeout ELSE validateBossRankingsQuery(q),
            reqUrlOf(client, "/raiding/boss-rankings", bossRankingsParams(q)))

GetBossRankings(p) ==
  /\ canStart(p)
  /\ \E q \in BossRankingsQueries, c0 \in CtxStates :
      enter(p, [op |-> "GetBossRankings", q |-> q], c0, validateBossRankingsQuery(q),
            reqUrlOf(client, "/raiding/boss-rankings", bossRankingsParams(q)))

GetHallOfFame(p) ==
  /\ canStart(p)
  /\ \E q \in HallOfFameQueries, c0 \in CtxStates :
      enter(p, [op |-> "GetHallOfFame", q |-> q], c0, validateHallOfFameQuery(q),
            reqUrlOf(client, "/raiding/hall-of-fame", hallOfFameParams(q)))

GetRaidProgression(p) ==
  /\ canStart(p)
  /\ \E q \in RaidProgressionQueries, c0 \in CtxStates :
      enter(p, [op |-> "GetRaidProgression", q |-> q], c0,
            validateRaidProgressionQuery(q),
            reqUrlOf(client, "/raiding/progression", raidProgressionParams(q)))

\* The caller's context expires or is cancelled while the call is blocked.
CtxDone(p) ==
  /\ pc[p] \in {"waiting", "reading"}
  /\ ctx[p] = "live"
  /\ \E c1 \in {"expired", "canceled"} : ctx' = [ctx EXCEPT ![p] = c1]
  /\ UNCHANGED <<client, pc, call, req, doCalls, resp, ret, raids, mem>>

\* A variant that hands the error of HttpClient.Do on as it is.
DoReturnsError_rawError(p) ==
  /\ pc[p] = "waiting"
  /\ LET err == IF ctx[p] = "expired" THEN "context deadline exceeded"
                ELSE IF ctx[p] = "canceled" THEN "context canceled"
                ELSE "connection refused"
     IN  ret' = [ret EXCEPT ![p] = [result |-> NilResult, err |-> err]]
  /\ pc' = [pc EXCEPT ![p] = "done"]
  /\ UNCHANGED <<client, call, ctx, req, doCalls, resp, raids, mem>>

\* HttpClient.Do returns an error: the context's error when the context is
\* done, a transport failure otherwise.  getAPIResponse returns it wrapped
\* and the Get* method passes it on.
DoReturnsError(p) ==
  /\ pc[p] = "waiting"
  /\ LET err == IF ctx[p] = "expired" THEN "context deadline exceeded"
                ELSE IF ctx[p] = "canceled" THEN "context canceled"
                ELSE "connection refused"
     IN  ret' = [ret EXCEPT ![p] = [result |-> NilResult, err |-> wrapHttpError(err)]]
  /\ pc' = [pc EXCEPT ![p] = "done"]
  /\ UNCHANGED <<client, call, ctx, req, doCalls, resp, raids, mem>>

\* HttpClient.Do returns a response with a body of the set B; the call goes
\* on to read its body.
doReturnsResponseFrom(p, B) ==
  /\ pc[p] = "waiting"
  /\ ctx[p] = "live"
  /\ \E s \in Statuses, b \in B :
       resp' = [resp EXCEPT ![p] =
                  [delivered |-> TRUE, StatusCode |-> s, Body |-> b, read |-> "pending",
                   closed |-> FALSE]]
  /\ pc' = [pc EXCEPT ![p] = "reading"]
  /\ UNCHANGED <<client, call, ctx, req, doCalls, ret, raids, mem>>

DoReturnsResponse(p) == doReturnsResponseFrom(p, Bodies)

\* The same with an upstream message of several phrases.
DoReturnsWideResponse(p) == doReturnsResponseFrom(p, WideBodies)

\* The same with a body that carries data.
DoReturnsDataResponse(p) == doReturnsResponseFrom(p, DataBodies)

\* A variant that sends the request again after a status other than 200.
ReadAll_retry(p) ==
  /\ pc[p] = "reading"
  /\ \E ok \in BOOLEAN :
       IF ok /\ isErrorStatus(resp[p].StatusCode)
         THEN /\ resp' = [resp EXCEPT ![p] = NoResponse]
              /\ doCalls' = [doCalls EXCEPT ![p] = @ + 1]
              /\ pc' = [pc EXCEPT ![p] = "waiting"]
              /\ UNCHANGED ret
         ELSE /\ resp' = [resp EXCEPT ![p].read = IF ok THEN "ok" ELSE "err"]
              /\ ret' = [ret EXCEPT ![p] =
                   IF ~ok THEN [result |-> NilResult, err |-> ErrReadingBody]
                   ELSE decodeBody(call[p].op, resp[p].Body)]
              /\ pc' = [pc EXCEPT ![p] = "done"]
              /\ UNCHANGED doCalls
  /\ UNCHANGED <<client, call, ctx, req, raids, mem>>

\* io.ReadAll returns, and the rest of getAPIResponse and of the Get* method
\* runs: the read error, the classified error of a status other than 200, or
\* the decoded body.
ReadAll(p) ==
  /\ pc[p] = "reading"
  /\ \E ok \in BOOLEAN :
       /\ resp' = [resp EXCEPT ![p].read = IF ok THEN "ok" ELSE "err"]
       /\ ret' = [ret EXCEPT ![p] =
            IF ~ok THEN [result |-> NilResult, err |-> ErrReadingBody]
            ELSE IF isErrorStatus(resp[p].StatusCode)
              THEN [result |-> NilResult,
                    err |-> wrapApiError(apiErrorResponse(resp[p].Body))]
            ELSE decodeBody(call[p].op, resp[p].Body)]
  /\ pc' = [pc EXCEPT ![p] = "done"]
  /\ UNCHANGED <<client, call, ctx, req, doCalls, raids, mem>>

\* The caller takes the returned pair; the call's frame is gone.
Return(p) ==
  /\ pc[p] = "done"
  /\ pc' = [pc EXCEPT ![p] = "idle"]
  /\ call' = [call EXCEPT ![p] = NoCall]
  /\ ctx' = [ctx EXCEPT ![p] = "live"]
  /\ req' = [req EXCEPT ![p] = NoRequest]
  /\ doCalls' = [doCalls EXCEPT ![p] = 0]
  /\ resp' = [resp EXCEPT ![p] = NoResponse]
  /\ ret' = [ret EXCEPT ![p] = [result |-> NilResult, err |-> NilError]]
  /\ UNCHANGED <<client, raids, mem>>

\* A variant in which the request URL is kept in one place for all callers.
GetCharacterConcurrently_sharedUrl(p) ==
  /\ pc[p] = "idle"
  /\ \E cq \in SmallCharacterQueries, c0 \in CtxStates :
       LET reqUrl == reqUrlOf(client, "/characters/profile", characterParams(cq))
       IN  /\ call' = [call EXCEPT ![p] =
                         [op |-> "GetCharacter", q |-> cq, ctx0 |-> c0]]
           /\ ctx' = [ctx EXCEPT ![p] = c0]
           /\ resp' = [resp EXCEPT ![p] = NoResponse]
           /\ IF validateCharacterQuery(cq) # NilError
                THEN /\ pc' = [pc EXCEPT ![p] = "done"]
                     /\ ret' = [ret EXCEPT ![p] =
                                  [result |-> NilResult,
                                   err |-> validateCharacterQuery(cq)]]
                     /\ UNCHANGED <<req, doCalls>>
                ELSE IF requestError(client, reqUrl) # NilError
                THEN /\ pc' = [pc EXCEPT ![p] = "done"]
                     /\ ret' = [ret EXCEPT ![p] =
                                  [result |-> NilResult,
                                   err |-> requestError(client, reqUrl)]]
                     /\ UNCHANGED <<req, doCalls>>
                ELSE /\ pc' = [pc EXCEPT ![p] = "waiting"]
                     /\ req' = [o \in Callers |->
                                  IF o = p \/ pc[o] = "waiting"
                                    THEN [sent |-> TRUE,
                                          url |-> withAccessKey(client, reqUrl)]
                                    ELSE req[o]]
                     /\ doCalls' = [doCalls EXCEPT ![p] = @ + 1]
                     /\ UNCHANGED ret
  /\ UNCHANGED <<client, raids, mem>>

\* GetCharacter, called while calls of other callers are running.
GetCharacterConcurrently(p) ==
  /\ pc[p] = "idle"
  /\ \E cq \in SmallCharacterQueries, c0 \in CtxStates :
      enter(p, [op |-> "GetCharacter", q |-> cq], c0, validateCharacterQuery(cq),
            reqUrlOf(client, "/characters/profile", characterParams(cq)))

\* GetGuild, called while calls of other callers are running.
GetGuildConcurrently(p) ==
  /\ pc[p] = "idle"
  /\ \E gq \in SmallGuildQueries, c0 \in CtxStates :
      enter(p, [op |-> "GetGuild", q |-> gq], c0, createGuildQuery(gq),
            reqUrlOf(client, "/guilds/profile", guildParams(gq)))

\* HttpClient.Do returns a response to one of the calls that are running.
DoReturnsSmallResponse(p) == doReturnsResponseFrom(p, SmallBodies)

\* r.GetRaidBySlug(slug) on the collection the callers hold.
GetRaidBySlug(p) ==
  /\ canStart(p)
  /\ \E slug \in LookupSlugs :
       /\ call' = [call EXCEPT ![p] = [op |-> "GetRaidBySlug", q |-> [slug |-> slug]]]
       /\ ret' = [ret EXCEPT ![p] = getRaidBySlug(raids, slug)]
  /\ pc' = [pc EXCEPT ![p] = "done"]
  /\ UNCHANGED <<client, ctx, req, doCalls, resp, raids, mem>>

\* The caller assigns to the Name of the Raid a lookup returned.
SetReturnedName(p) ==
  /\ pc[p] = "done"
  /\ call[p].op = "GetRaidBySlug"
  /\ ret[p].err = NilError
  /\ ret[p].result.raid.Name # "renamed"
  /\ ret' = [ret EXCEPT ![p].result.raid.Name = "renamed"]
  /\ UNCHANGED <<client, pc, call, ctx, req, doCalls, resp, raids, mem>>

\* The caller assigns to the Name of an element of the Encounters of the
\* Raid a lookup returned.
SetReturnedEncounterName(p) ==
  /\ pc[p] = "done"
  /\ call[p].op = "GetRaidBySlug"
  /\ ret[p].err = NilError
  /\ \E j \in 1..Len(mem[ret[p].result.raid.Encounters.ptr]) :
       /\ mem[ret[p].result.raid.Encounters.ptr][j].Name # "renamed"
       /\ mem' = [mem EXCEPT ![ret[p].result.raid.Encounters.ptr][j].Name = "renamed"]
  /\ UNCHANGED <<client, pc, call, ctx, req, doCalls, resp, ret, raids>>

\* g.GetGuildRaidRankBySlug(slug) on a Guild value.
GetGuildRaidRankBySlug(p) ==
  /\ canStart(p)
  /\ \E g \in Guilds, slug \in LookupSlugs :
       /\ call' = [call EXCEPT ![p] =
                     [op |-> "GetGuildRaidRankBySlug", q |-> [g |-> g, slug |-> slug]]]
       /\ ret' = [ret EXCEPT ![p] = getGuildRaidRankBySlug(g, slug)]
  /\ pc' = [pc EXCEPT ![p] = "done"]
  /\ UNCHANGED <<client, ctx, req, doCalls, resp, raids, mem>>

Next ==
  \E p \in Callers :
    \/ GetCharacter(p)
    \/ GetGuild(p)
    \/ GetRaids(p)
    \/ GetRaidRankings(p)
    \/ GetGuildBossKill(p)
    \/ GetBossRankings(p)
    \/ GetHallOfFame(p)
    \/ GetRaidProgression(p)
    \/ CtxDone(p)
    \/ DoReturnsError(p)
    \/ DoReturnsResponse(p)
    \/ ReadAll(p)
    \/ Return(p)

Spec == Init /\ [][Next]_vars

\* The classifier's specification: calls of GetRaids, answered with messages
\* of up to MaxPhrases phrases.
NextClassify ==
  \E p \in Callers :
    \/ GetRaids(p)
    \/ CtxDone(p)
    \/ DoReturnsError(p)
    \/ DoReturnsWideResponse(p)
    \/ ReadAll(p)
    \/ Return(p)

SpecClassify == Init /\ [][NextClassify]_vars

\* The calls whose decoding is looked at in detail.
NextDecode ==
  \E p \in Callers :
    \/ GetGuildBossKill(p)
    \/ GetRaidProgression(p)
    \/ CtxDone(p)
    \/ DoReturnsError(p)
    \/ DoReturnsDataResponse(p)
    \/ ReadAll(p)
    \/ Return(p)

SpecDecode == Init /\ [][NextDecode]_vars

\* The callers hold a decoded Raids collection of up to MaxRaids raids; the
\* Encounters slice of the raid at index i points to the array mem[i].
InitLookup ==
  /\ client \in Clients
  /\ pc = [p \in Callers |-> "idle"]
  /\ call = [p \in Callers |-> NoCall]
  /\ ctx = [p \in Callers |-> "live"]
  /\ req = [p \in Callers |-> NoRequest]
  /\ doCalls = [p \in Callers |-> 0]
  /\ resp = [p \in Callers |-> NoResponse]
  /\ ret = [p \in Callers |-> [result |-> NilResult, err |-> NilError]]
  /\ \E n \in 0..MaxRaids :
       /\ \E hs \in [1..n -> RaidHeaders] :
            raids = [i \in 1..n |->
                       [Id |-> hs[i].Id, Slug |-> hs[i].Slug, Name |-> hs[i].Name,
                        Encounters |-> [ptr |-> i]]]
       /\ mem \in [1..n -> EncounterLists]

NextLookup ==
  \E p \in Callers :
    \/ GetRaidBySlug(p)
    \/ SetReturnedName(p)
    \/ SetReturnedEncounterName(p)
    \/ GetGuildRaidRankBySlug(p)
    \/ Return(p)

SpecLookup == InitLookup /\ [][NextLookup]_vars

\* The callers call GetCharacter and GetGuild on the one client without
\* waiting for each other.
NextConcurrent ==
  \E p \in Callers :
    \/ GetCharacterConcurrently(p)
    \/ GetGuildConcurrently(p)
    \/ CtxDone(p)
    \/ DoReturnsError(p)
    \/ DoReturnsSmallResponse(p)
    \/ ReadAll(p)
    \/ Return(p)

SpecConcurrent == Init /\ [][NextConcurrent]_vars

TypeOK ==
  /\ client \in Clients
  /\ \A p \in Callers :
       /\ pc[p] \in {"idle", "waiting", "reading", "done"}
       /\ ctx[p] \in CtxStates
       /\ doCalls[p] \in 0..1

\* ------------------------------------------------------ terms of the claims
ValidatedOps ==
  {"GetCharacter", "GetGuild", "GetRaidRankings", "GetGuildBossKill",
   "GetBossRankings", "GetHallOfFame", "GetRaidProgression"}

DifficultyOps ==
  {"GetRaidRankings", "GetGuildBossKill", "GetBossRankings", "GetHallOfFame",
   "GetRaidProgression"}

\* The error validation gives for a call, NilError when the query passes.
validationError(c) ==
  CASE c.op = "GetCharacter" -> validateCharacterQuery(c.q)
    [] c.op = "GetGuild" -> createGuildQuery(c.q)
    [] c.op = "GetRaidRankings" -> validateRaidRankingsQuery(c.q)
    [] c.op = "GetGuildBossKill" -> validateGuildBossKillQuery(c.q)
    [] c.op = "GetBossRankings" -> validateBossRankingsQuery(c.q)
    [] c.op = "GetHallOfFame" -> validateHallOfFameQuery(c.q)
    [] c.op = "GetRaidProgression" -> validateRaidProgressionQuery(c.q)
    [] OTHER -> NilError

\* The call p has returned (nil, e) without a request having been sent.
rejectedWith(p, e) ==
  /\ pc[p] = "done"
  /\ ret[p] = [result |-> NilResult, err |-> e]
  /\ doCalls[p] = 0
  /\ req[p] = NoRequest

raidSlugOf(c) == IF c.op = "GetRaidRankings" THEN c.q.Slug ELSE c.q.RaidSlug

\* The required fields of a call's query that are missing.
missingFields(c) ==
  (IF c.q.Region = NilPtr THEN {"Region"} ELSE {})
    \cup (IF raidSlugOf(c) = "" THEN {"RaidSlug"} ELSE {})
    \cup (IF c.op \in {"GetGuildBossKill", "GetBossRankings"} /\ c.q.BossSlug = ""
            THEN {"BossSlug"} ELSE {})
    \cup (IF c.op = "GetGuildBossKill" /\ c.q.Realm = "" THEN {"Realm"} ELSE {})
    \cup (IF c.op = "GetGuildBossKill" /\ c.q.GuildName = ""
            THEN {"GuildName"} ELSE {})

fieldError(f) ==
  CASE f = "Region" -> "invalid region"
    [] f = "Realm" -> "invalid realm"
    [] f = "GuildName" -> "invalid guild name"
    [] f = "RaidSlug" -> "invalid raid name"
    [] f = "BossSlug" -> "invalid boss"

difficultyKnown(d) == d \in {"normal", "heroic", "mythic"}

\* The values a query-string key carries in a request URL.
paramValues(u, key) ==
  LET sel == SelectSeq(u.rawQuery, LAMBDA x : x.k = key)
  IN  [i \in 1..Len(sel) |-> sel[i].v]

Digits == <<"0", "1", "2", "3", "4", "5", "6", "7", "8", "9">>

\* The decimal numeral of an integer.
RECURSIVE decimal(_)
decimal(n) ==
  IF n < 0 THEN "-" \o decimal(-n)
  ELSE IF n < 10 THEN Digits[n + 1]
  ELSE decimal(n \div 10) \o Digits[(n % 10) + 1]

\* ----------------------------------------------------------------- claims
\* C1: for each of GetCharacter, GetGuild, GetRaidRankings, GetGuildBossKill,
\* GetBossRankings, GetHallOfFame and GetRaidProgression, a call whose query
\* fails validation returns the validation error, and at no point of the call
\* is a request handed to the HTTP client.
C1_FailFast ==
  \A p \in Callers :
    (call[p].op \in ValidatedOps /\ validationError(call[p]) # NilError)
      => rejectedWith(p, validationError(call[p]))

C1_Witness ==
  \E p \in Callers :
    /\ call[p].op = "GetRaidRankings"
    /\ call[p].q.Limit < 0
    /\ rejectedWith(p, ErrLimitOutOfBounds)

\* C2: a Get* call that has returned has returned either a non-nil result
\* with a nil error or a nil result with a non-nil error, never both and
\* never neither.
C2_ExactlyOne ==
  \A p \in Callers :
    pc[p] = "done" => ((ret[p].result = NilResult) # (ret[p].err = NilError))

C2_Witness ==
  \E p \in Callers :
    /\ pc[p] = "done"
    /\ resp[p].delivered
    /\ resp[p].StatusCode = 200
    /\ resp[p].Body.json = "mismatch"
    /\ ret[p].result = NilResult
    /\ ret[p].err # NilError

\* C3: for the five operations that take a difficulty, a query whose other
\* required fields are valid is rejected with "invalid raid difficulty" when
\* Difficulty is empty or not one of normal, heroic, mythic, and is not
\* rejected for its difficulty when it is one of the three.
C3_Difficulty ==
  \A p \in Callers :
    (call[p].op \in DifficultyOps /\ missingFields(call[p]) = {})
      => IF difficultyKnown(call[p].q.Difficulty)
           THEN ret[p].err # "invalid raid difficulty"
           ELSE rejectedWith(p, "invalid raid difficulty")

C3_Witness ==
  \E p \in Callers :
    /\ call[p].op = "GetRaidProgression"
    /\ missingFields(call[p]) = {}
    /\ call[p].q.Difficulty = "invalid-difficulty"
    /\ rejectedWith(p, "invalid raid difficulty")

\* C4: GetRaidRankings with a non-empty Slug, a valid Difficulty and a
\* non-nil Region returns the limit error for every Limit < 0, also when
\* Page is negative too, and the page error for every Page < 0 with
\* Limit >= 0; no request is sent in either case.
C4_PagingBounds ==
  \A p \in Callers :
    (/\ call[p].op = "GetRaidRankings"
     /\ call[p].q.Slug # ""
     /\ difficultyKnown(call[p].q.Difficulty)
     /\ call[p].q.Region # NilPtr)
      => /\ call[p].q.Limit < 0 => rejectedWith(p, "limit must be a positive int")
         /\ (call[p].q.Limit >= 0 /\ call[p].q.Page < 0)
              => rejectedWith(p, "page must be a positive int")

C4_Witness ==
  \E p \in Callers :
    /\ call[p].op = "GetRaidRankings"
    /\ call[p].q.Limit < 0
    /\ call[p].q.Page < 0
    /\ rejectedWith(p, "limit must be a positive int")

\* C5: GetRaidRankings accepts Limit = 0 and Page = 0, and the URL of the
\* request it sends has a limit parameter exactly when Limit is not 0 and a
\* page parameter exactly when Page is not 0, each with the decimal numeral
\* of the field as its one value.
C5_PagingParams ==
  \A p \in Callers :
    call[p].op = "GetRaidRankings"
      => /\ (/\ call[p].q.Slug # ""
             /\ difficultyKnown(call[p].q.Difficulty)
             /\ call[p].q.Region # NilPtr
             /\ call[p].q.Limit = 0
             /\ call[p].q.Page = 0
             /\ urlParses([base |-> client.ApiUrl]))
              => req[p].sent
         /\ req[p].sent
              => /\ paramValues(req[p].url, "limit") =
                      (IF call[p].q.Limit # 0
                         THEN <<decimal(call[p].q.Limit)>> ELSE <<>>)
                 /\ paramValues(req[p].url, "page") =
                      (IF call[p].q.Page # 0
                         THEN <<decimal(call[p].q.Page)>> ELSE <<>>)

C5_Witness ==
  \E p \in Callers :
    /\ call[p].op = "GetRaidRankings"
    /\ req[p].sent
    /\ call[p].q.Limit = 0
    /\ call[p].q.Page = 2
    /\ paramValues(req[p].url, "limit") = <<>>
    /\ paramValues(req[p].url, "page") = <<"2">>

\* C6: a GuildBossKillQuery, RaidQuery, BossRankingsQuery, HallOfFameQuery or
\* RaidProgressionQuery in which exactly one required field is missing and
\* the others and the difficulty are valid is rejected with that field's
\* error: invalid region, realm, guild name, raid name or boss.
C6_MissingField ==
  \A p \in Callers :
    call[p].op \in DifficultyOps
      => \A f \in missingFields(call[p]) :
           (missingFields(call[p]) = {f} /\ difficultyKnown(call[p].q.Difficulty))
             => rejectedWith(p, fieldError(f))

C6_Witness ==
  \E p \in Callers :
    /\ call[p].op = "GetBossRankings"
    /\ missingFields(call[p]) = {"BossSlug"}
    /\ difficultyKnown(call[p].q.Difficulty)
    /\ rejectedWith(p, "invalid boss")

\* C7 as stated: a GuildBossKillQuery with a nil Region and an empty Realm,
\* GuildName, RaidSlug or BossSlug is rejected with the error of an empty
\* name-like field, not with the region error.
C7_NamesBeforeRegion ==
  \A p \in Callers :
    (/\ call[p].op = "GetGuildBossKill"
     /\ call[p].q.Region = NilPtr
     /\ missingFields(call[p]) # {"Region"})
      => /\ ret[p].err # "invalid region"
         /\ ret[p].err \in {fieldError(f) : f \in missingFields(call[p]) \ {"Region"}}

\* C7 amended: validateGuildBossKillQuery checks the region first, then
\* Realm, GuildName, RaidSlug, BossSlug and the difficulty, and the first
\* failing check gives the error; a query with a nil Region is rejected with
\* the region error whatever its other fields are.
C7_RegionFirst ==
  \A p \in Callers :
    call[p].op = "GetGuildBossKill"
      => LET q == call[p].q
         IN  IF q.Region = NilPtr THEN rejectedWith(p, "invalid region")
             ELSE IF q.Realm = "" THEN rejectedWith(p, "invalid realm")
             ELSE IF q.GuildName = "" THEN rejectedWith(p, "invalid guild name")
             ELSE IF q.RaidSlug = "" THEN rejectedWith(p, "invalid raid name")
             ELSE IF q.BossSlug = "" THEN rejectedWith(p, "invalid boss")
             ELSE IF ~difficultyKnown(q.Difficulty)
               THEN rejectedWith(p, "invalid raid difficulty")
             ELSE doCalls[p] = 1 \/ ~urlParses([base |-> client.ApiUrl])

C7_Witness ==
  \E p \in Callers :
    /\ call[p].op = "GetGuildBossKill"
    /\ call[p].q.Region = NilPtr
    /\ call[p].q.Realm = ""
    /\ call[p].q.BossSlug = ""
    /\ rejectedWith(p, "invalid region")

\* C8 as stated: a RaidQuery, BossRankingsQuery, HallOfFameQuery or
\* RaidProgressionQuery with non-empty slugs, a nil Region and an empty or
\* unrecognized Difficulty is rejected with the region error.
C8_RegionBeforeDifficulty ==
  \A p \in Callers :
    (/\ call[p].op \in DifficultyOps \ {"GetGuildBossKill"}
     /\ missingFields(call[p]) = {"Region"}
     /\ ~difficultyKnown(call[p].q.Difficulty))
      => rejectedWith(p, "invalid region")

\* C8 amended: for these four query types the difficulty rule is applied
\* before the region rule; such a query is rejected with "invalid raid
\* difficulty", and with the region error only when its difficulty is valid.
C8_DifficultyBeforeRegion ==
  \A p \in Callers :
    (/\ call[p].op \in DifficultyOps \ {"GetGuildBossKill"}
     /\ missingFields(call[p]) = {"Region"})
      => IF difficultyKnown(call[p].q.Difficulty)
           THEN rejectedWith(p, "invalid region")
           ELSE rejectedWith(p, "invalid raid difficulty")

C8_Witness ==
  \E p \in Callers :
    /\ call[p].op = "GetHallOfFame"
    /\ missingFields(call[p]) = {"Region"}
    /\ call[p].q.Difficulty = ""
    /\ rejectedWith(p, "invalid raid difficulty")

\* C9: whenever a request is sent for a query that has a Region, the Region
\* is a non-nil reference to one of the enumerated regions.
C9_RegionEnumerated ==
  \A p \in Callers :
    (call[p].op \in ValidatedOps /\ req[p].sent)
      => /\ call[p].q.Region # NilPtr
         /\ call[p].q.Region.Slug \in RegionSlugs

\* C10 as stated: whenever the transport delivered a response with a status
\* other than 200, the call returns no result and the error the classifier
\* gives for the response's error envelope.
C10_NonOkClassified ==
  \A p \in Callers :
    (pc[p] = "done" /\ resp[p].delivered /\ resp[p].StatusCode # 200)
      => ret[p] = [result |-> NilResult,
                   err |-> wrapApiError(apiErrorResponse(resp[p].Body))]

\* C10 amended: whenever the transport delivered a response with a status
\* other than 200 and its body was read without error, the call returns no
\* result and the error the classifier gives for the response's error
\* envelope; when reading the body failed, the call returns no result and
\* "error reading response body", whatever the status.
C10_NonOkClassifiedOnceRead ==
  \A p \in Callers :
    (pc[p] = "done" /\ resp[p].delivered)
      => /\ (resp[p].StatusCode # 200 /\ resp[p].read = "ok")
              => ret[p] = [result |-> NilResult,
                           err |-> wrapApiError(apiErrorResponse(resp[p].Body))]
         /\ resp[p].read = "err"
              => ret[p] = [result |-> NilResult, err |-> ErrReadingBody]

C10_Witness ==
  \E p \in Callers :
    /\ pc[p] = "done"
    /\ resp[p].delivered
    /\ resp[p].StatusCode = 204
    /\ resp[p].read = "ok"
    /\ resp[p].Body.message = <<"Failed to find realm">>
    /\ ret[p] = [result |-> NilResult, err |-> "invalid realm"]

\* The classifier's table as the claims state it: pattern and kind, in order.
PatternTable ==
  <<[pattern |-> "Failed to find region", err |-> "invalid region"],
    [pattern |-> "Failed to find realm", err |-> "invalid realm"],
    [pattern |-> "Could not find requested character", err |-> "character not found"],
    [pattern |-> "Could not find requested guild", err |-> "guild not found"],
    [pattern |-> "Requested unsupported expansion_id", err |-> "unsupported expansion"],
    [pattern |-> "Could not find requested raid", err |-> "invalid raid"]>>

\* The index of the earliest pattern of the table a message contains, else 0.
firstMatch(m) ==
  LET hits == {i \in 1..Len(PatternTable) : Contains(m, PatternTable[i].pattern)}
  IN  IF hits = {} THEN 0 ELSE CHOOSE i \in hits : \A j \in hits : i <= j

\* The call p got a response with a status other than 200 and read its body.
classified(p) ==
  /\ pc[p] = "done"
  /\ resp[p].delivered
  /\ resp[p].StatusCode # 200
  /\ resp[p].read = "ok"

\* The text of a message: its phrases, separated by a space.
RECURSIVE messageText(_)
messageText(m) ==
  IF m = <<>> THEN ""
  ELSE IF Len(m) = 1 THEN m[1]
  ELSE m[1] \o " " \o messageText(Tail(m))

\* C11: the classifier returns the kind of the earliest pattern of its table
\* (region, realm, character, guild, expansion, raid) that the envelope's
\* message contains, whatever the status code and wherever in the message
\* the pattern stands.
C11_FirstPatternWins ==
  \A p \in Callers :
    (classified(p) /\ firstMatch(apiErrorResponse(resp[p].Body).Message) # 0)
      => ret[p] =
           [result |-> NilResult,
            err |-> PatternTable[firstMatch(apiErrorResponse(resp[p].Body).Message)].err]

C11_Witness ==
  \E p \in Callers :
    /\ classified(p)
    /\ resp[p].StatusCode = 204
    /\ resp[p].Body.message = <<"Could not find requested raid", "Failed to find realm">>
    /\ ret[p].err = "invalid realm"

\* C12: when the envelope's message contains none of the patterns, the call
\* returns the unexpected-error kind and the error carries the upstream
\* message.
C12_UnexpectedCarriesMessage ==
  \A p \in Callers :
    (/\ classified(p)
     /\ resp[p].Body.json = "ok"
     /\ resp[p].Body.message # <<>>
     /\ firstMatch(resp[p].Body.message) = 0)
      => ret[p] =
           [result |-> NilResult,
            err |-> "unexpected error: " \o messageText(resp[p].Body.message)]

\* C13: when the body of a response with a status other than 200 cannot be
\* unmarshalled into the error envelope, the call returns the error the
\* classifier gives for the empty envelope, the unexpected-error kind.
C13_UnparsableGivesUnexpected ==
  \A p \in Callers :
    (classified(p) /\ resp[p].Body.json # "ok")
      => ret[p] = [result |-> NilResult, err |-> "unexpected error"]

\* C14 as stated: a Get* call with a valid query and a context whose deadline
\* has already expired returns no result and the error "raiderio api request
\* timeout".
C14_ExpiredGivesTimeout ==
  \A p \in Callers :
    (/\ pc[p] = "done"
     /\ call[p].ctx0 = "expired"
     /\ validationError(call[p]) = NilError)
      => ret[p] = [result |-> NilResult, err |-> "raiderio api request timeout"]

\* C14, amended: a Get* call with a valid query and a context whose deadline
\* has already expired, whose request could be built from the client's ApiUrl,
\* returns no result and the error "raiderio api request timeout", and no
\* response is delivered to it; when the request cannot be built the call
\* returns the URL or request-creation error instead.
C14_ExpiredGivesTimeoutOnceBuilt ==
  \A p \in Callers :
    (/\ pc[p] = "done"
     /\ call[p].ctx0 = "expired"
     /\ validationError(call[p]) = NilError)
      => IF req[p].sent
           THEN /\ ret[p] = [result |-> NilResult,
                             err |-> "raiderio api request timeout"]
                /\ ~resp[p].delivered
           ELSE /\ ret[p].result = NilResult
                /\ ret[p].err \in {"error parsing request URL", "error creating HTTP request"}

C14_Witness ==
  \E p \in Callers :
    /\ pc[p] = "done"
    /\ call[p].op = "GetBossRankings"
    /\ call[p].ctx0 = "expired"
    /\ req[p].sent
    /\ ret[p] = [result |-> NilResult, err |-> "raiderio api request timeout"]

\* C15: when the context of a call is done during the network phase, while
\* the call waits for the response or before the body is read in full, the
\* call returns the timeout error, not a transport or body-read error.
C15_SignalGivesTimeout ==
  \A p \in Callers :
    (/\ pc[p] = "done"
     /\ req[p].sent
     /\ call[p].ctx0 = "live"
     /\ ctx[p] # "live"
     /\ ~(resp[p].delivered /\ resp[p].read = "ok"))
      => ret[p] = [result |-> NilResult, err |-> "raiderio api request timeout"]

\* C16: a Get* call with an invalid query and a context that is already
\* expired or cancelled returns the validation error of the query, not the
\* timeout error, and hands no request to the HTTP client.
C16_ValidationIgnoresContext ==
  \A p \in Callers :
    (/\ call[p].op \in ValidatedOps
     /\ call[p].ctx0 \in {"expired", "canceled"}
     /\ validationError(call[p]) # NilError)
      => /\ rejectedWith(p, validationError(call[p]))
         /\ ret[p].err # "raiderio api request timeout"

C16_Witness ==
  \E p \in Callers :
    /\ call[p].op = "GetBossRankings"
    /\ call[p].ctx0 = "expired"
    /\ call[p].q.BossSlug = ""
    /\ call[p].q.Region # NilPtr
    /\ rejectedWith(p, "invalid boss")

\* The query parameters the method of a call builds, before getAPIResponse.
opParams(c) ==
  CASE c.op = "GetCharacter" -> characterParams(c.q)
    [] c.op = "GetGuild" -> guildParams(c.q)
    [] c.op = "GetRaids" -> raidsParams(c.q.Expansion)
    [] c.op = "GetRaidRankings" -> raidRankingsParams(c.q)
    [] c.op = "GetGuildBossKill" -> guildBossKillParams(c.q)
    [] c.op = "GetBossRankings" -> bossRankingsParams(c.q)
    [] c.op = "GetHallOfFame" -> hallOfFameParams(c.q)
    [] c.op = "GetRaidProgression" -> raidProgressionParams(c.q)

\* The request of a call could not be built.
notBuilt(p) ==
  ret[p].err \in {"error parsing request URL", "error creating HTTP request"}

\* C17: a Get* call hands at most one request to the HTTP client, exactly one
\* once validation has passed and the request is built, and none otherwise;
\* the count stays at one after a timeout, a transport error, a status other
\* than 200, a body-read failure or a decode failure.
C17_OneRequest ==
  \A p \in Callers :
    /\ doCalls[p] <= 1
    /\ call[p].op # "none" =>
         doCalls[p] =
           IF validationError(call[p]) = NilError /\ ~notBuilt(p) THEN 1 ELSE 0

C17_Witness ==
  \E p \in Callers :
    /\ pc[p] = "done"
    /\ resp[p].delivered
    /\ resp[p].StatusCode = 404
    /\ resp[p].read = "ok"
    /\ ret[p].err # NilError
    /\ doCalls[p] = 1

\* C18: the request a Get* call sends carries access_key exactly once, with
\* the client's AccessKey, when the AccessKey is not empty, and not at all
\* when it is empty; the other parameters of the request are the ones the
\* method built, with their values.
C18_AccessKeyMerged ==
  \A p \in Callers :
    req[p].sent =>
      /\ paramValues(req[p].url, "access_key") =
           (IF client.AccessKey # "" THEN <<client.AccessKey>> ELSE <<>>)
      /\ SelectSeq(req[p].url.rawQuery, LAMBDA x : x.k # "access_key") =
           Encode(opParams(call[p]))

C18_Witness ==
  \E p \in Callers :
    /\ req[p].sent
    /\ call[p].op = "GetGuildBossKill"
    /\ client.AccessKey = "test_key"
    /\ paramValues(req[p].url, "access_key") = <<"test_key">>
    /\ Len(req[p].url.rawQuery) = 7

\* C19: the request of GetRaidRankings and of GetBossRankings carries realm,
\* once and with the query's Realm, exactly when Realm is not empty, and
\* carries raid, difficulty and region once each in every case.
C19_RealmOnlyWhenSet ==
  \A p \in Callers :
    (req[p].sent /\ call[p].op \in {"GetRaidRankings", "GetBossRankings"}) =>
      /\ paramValues(req[p].url, "realm") =
           (IF call[p].q.Realm # "" THEN <<call[p].q.Realm>> ELSE <<>>)
      /\ paramValues(req[p].url, "raid") = <<raidSlugOf(call[p])>>
      /\ paramValues(req[p].url, "difficulty") = <<call[p].q.Difficulty>>
      /\ paramValues(req[p].url, "region") = <<call[p].q.Region.Slug>>

C19_Witness ==
  \E p \in Callers :
    /\ req[p].sent
    /\ call[p].op = "GetBossRankings"
    /\ call[p].q.Realm = ""
    /\ paramValues(req[p].url, "realm") = <<>>
    /\ paramValues(req[p].url, "region") # <<>>

\* The field names the include flags of a call's query stand for, in order.
flagNames(c) ==
  IF c.op = "GetGuild"
    THEN (IF c.q.Members THEN <<"members">> ELSE <<>>)
           \o (IF c.q.RaidProgression THEN <<"raid_progression">> ELSE <<>>)
           \o (IF c.q.RaidRankings THEN <<"raid_rankings">> ELSE <<>>)
    ELSE (IF c.q.Gear THEN <<"gear">> ELSE <<>>)
           \o (IF c.q.TalentLoadout THEN <<"talents">> ELSE <<>>)

\* The names of a list with a comma between neighbours.
commaJoined(names) ==
  LET acc[i \in 1..Len(names)] ==
        IF i = 1 THEN names[1] ELSE acc[i - 1] \o "," \o names[i]
  IN  acc[Len(names)]

bossKillReturned(p) ==
  /\ pc[p] = "done"
  /\ call[p].op = "GetGuildBossKill"
  /\ ret[p].err = NilError

\* The product of two non-negative int64 as a number of eight limbs, in full.
mulExact(a, b) ==
  LET at(x, i) == IF i \in 1..4 THEN x[i] ELSE 0
      col(k) ==
        LET s[i \in 0..k] == IF i = 0 THEN 0 ELSE s[i - 1] + at(a, i) * at(b, k + 1 - i)
        IN  s[k]
      carry[k \in 1..8] == IF k = 1 THEN 0 ELSE (col(k - 1) + carry[k - 1]) \div 65536
  IN  [k \in 1..8 |-> (col(k) + carry[k]) % 65536]

\* The int64 d, read as a signed number, is the number e of eight limbs.
sameNumber(d, e) ==
  /\ d[4] < 32768
  /\ \A k \in 1..4 : d[k] = e[k]
  /\ \A k \in 5..8 : e[k] = 0

\* a <= b for two non-negative int64.
le64(a, b) ==
  \/ a = b
  \/ \E k \in 1..4 : a[k] < b[k] /\ \A j \in (k + 1)..4 : a[j] = b[j]

\* 1000000, the nanoseconds of a millisecond, and 9223372036854, the largest
\* number of milliseconds whose nanoseconds fit into an int64.
NanosPerMs == <<16960, 15, 0, 0>>
MaxExactMs == <<23286, 31696, 2147, 0>>

C22_RosterInOrder ==
  \A p \in Callers :
    bossKillReturned(p) =>
      LET wire == payloadOf(resp[p].Body).roster
          chars == ret[p].result.Roster
      IN  /\ Len(chars) = Len(wire)
          /\ \A i \in 1..Len(wire) :
               /\ chars[i].Name = wire[i].name
               /\ chars[i].Class = wire[i].class
               /\ chars[i].Spec = wire[i].spec
               /\ chars[i].Realm = wire[i].realm
               /\ chars[i].Region = wire[i].region
               /\ chars[i].TalentLoadout.LoadoutText = wire[i].loadoutText

C22_Witness ==
  \E p \in Callers :
    /\ bossKillReturned(p)
    /\ Len(ret[p].result.Roster) = 2
    /\ ret[p].result.Roster[1].Name = "drjay"
    /\ ret[p].result.Roster[1].Spec = "holy"
    /\ ret[p].result.Roster[2].Name = "highervalue"
    /\ ret[p].result.Roster[2].Region = "us"
    /\ ret[p].result.Roster[2].TalentLoadout.LoadoutText = "CsQA"

\* The calls whose result has rank and count fields.
RankOps == {"GetGuild", "GetRaidRankings", "GetBossRankings", "GetRaidProgression"}

\* C26: the rank and count fields of the value a successful call returns are
\* >= 0, whatever body the service sent.
C26_RanksNonNegative ==
  \A p \in Callers :
    (pc[p] = "done" /\ call[p].op \in RankOps /\ ret[p].err = NilError)
      => ret[p].result.Rank >= 0

\* The call p got a response with status 200 and read its body.
okBodyRead(p) ==
  /\ pc[p] = "done"
  /\ resp[p].delivered
  /\ resp[p].StatusCode = 200
  /\ resp[p].read = "ok"

\* The decode error of each Get* method.
decodeErrorOf(op) ==
  CASE op = "GetCharacter" -> "error unmarshalling character profile"
    [] op = "GetGuild" -> "error unmarshalling guild profile"
    [] op = "GetRaids" -> "error unmarshalling raids"
    [] op = "GetRaidRankings" -> "error unmarshalling raid rankings"
    [] op = "GetGuildBossKill" -> ErrJsonUnmarshal
    [] op = "GetBossRankings" -> "error unmarshalling boss rankings"
    [] op = "GetHallOfFame" -> "error unmarshalling hall of fame"
    [] op = "GetRaidProgression" -> "error unmarshalling raid progression"

\* C27: when the body of a response with status 200 is no JSON, or JSON whose
\* types do not fit the endpoint's struct, the call returns no result and the
\* method's decode error, never a value with a nil error.
C27_DecodeFailureIsError ==
  \A p \in Callers :
    (okBodyRead(p) /\ resp[p].Body.json # "ok")
      => /\ ret[p].result = NilResult
         /\ ret[p].err # NilError
         /\ ret[p].err = decodeErrorOf(call[p].op)

C27_Witness ==
  \E p \in Callers :
    /\ okBodyRead(p)
    /\ call[p].op = "GetCharacter"
    /\ resp[p].Body.json = "malformed"
    /\ ret[p] = [result |-> NilResult, err |-> "error unmarshalling character profile"]

\* The step in which the caller p makes a call of the method op and gets its
\* return value.
returnsFrom(p, op) ==
  /\ pc[p] = "idle"
  /\ pc'[p] = "done"
  /\ call'[p].op = op

\* The indices of the raids of the collection that have the slug.
raidsWithSlug(slug) == {i \in 1..Len(raids) : raids[i].Slug = slug}

\* C23: GetRaidBySlug(slug) returns the first raid of the collection whose
\* Slug is equal to slug, with a nil error, and returns no raid and the
\* error "invalid raid" when the collection has no raid with that slug.
C23_FirstExactMatch ==
  [][\A p \in Callers :
       returnsFrom(p, "GetRaidBySlug") =>
         LET hits == raidsWithSlug(call'[p].q.slug)
         IN  IF hits = {}
               THEN ret'[p] = [result |-> NilResult, err |-> "invalid raid"]
               ELSE /\ ret'[p].err = NilError
                    /\ ret'[p].result.raid =
                         raids[CHOOSE i \in hits : \A j \in hits : i <= j]]_vars

C23_Witness ==
  \E p \in Callers :
    /\ pc[p] = "done"
    /\ call[p].op = "GetRaidBySlug"
    /\ call[p].q.slug = "nerubar-palace"
    /\ Len(raids) = 2
    /\ raids[1] = [Id |-> 15, Slug |-> "nerubar-palace-mythic",
                   Name |-> "Nerub-ar Palace", Encounters |-> [ptr |-> 1]]
    /\ raids[2].Slug = "nerubar-palace"
    /\ ret[p] = [result |-> [kind |-> "Raid", raid |-> raids[2]], err |-> NilError]

\* The Raid structs of the collection with the contents of their Encounters.
stored ==
  [i \in 1..Len(raids) |->
     [Id |-> raids[i].Id, Slug |-> raids[i].Slug, Name |-> raids[i].Name,
      Encounters |-> mem[raids[i].Encounters.ptr]]]

\* C24: no step changes the raids stored in the collection: not the lookup,
\* and not an assignment to the returned Raid or to its encounter list.
C24_CollectionUnchanged == [][stored' = stored]_vars

\* C25: GetGuildRaidRankBySlug returns the entry of the slug with a nil error
\* when the map has it, the error "invalid raid" when the map lacks the slug,
\* and the error "guild raid rankings field missing from api response" when
\* the guild has no map; the two errors differ.
C25_ThreeOutcomes ==
  \A p \in Callers :
    (pc[p] = "done" /\ call[p].op = "GetGuildRaidRankBySlug") =>
      IF call[p].q.g.RaidRankings = [nil |-> TRUE]
        THEN ret[p] =
               [result |-> NilResult,
                err |-> "guild raid rankings field missing from api response"]
      ELSE IF call[p].q.slug \notin DOMAIN call[p].q.g.RaidRankings
        THEN ret[p] = [result |-> NilResult, err |-> "invalid raid"]
      ELSE /\ ret[p].err = NilError
           /\ ret[p].result.rank = call[p].q.g.RaidRankings[call[p].q.slug]

C25_Witness ==
  \E p \in Callers :
    /\ pc[p] = "done"
    /\ call[p].op = "GetGuildRaidRankBySlug"
    /\ DOMAIN call[p].q.g.RaidRankings = {"nerubar-palace"}
    /\ call[p].q.slug = "nerubar-palace-mythic"
    /\ ret[p] = [result |-> NilResult, err |-> "invalid raid"]

\* C28: no step of a Get* call changes the client's ApiUrl, AccessKey or
\* HttpClient.
C28_ClientUnchanged ==
  [][/\ client'.ApiUrl = client.ApiUrl
     /\ client'.AccessKey = client.AccessKey
     /\ client'.HttpClient = client.HttpClient]_vars

C28_Witness ==
  \E p \in Callers :
    /\ pc[p] = "done"
    /\ call[p].op = "GetRaids"
    /\ req[p].sent
    /\ paramValues(req[p].url, "access_key") = <<"test_key">>
    /\ client = [ApiUrl |-> "https://raider.io/api/v1", AccessKey |-> "test_key",
                 HttpClient |-> "&http.Client{}"]

\* C30: when a call has returned after the transport delivered a response,
\* the body of the response has been closed.
C30_BodyClosed ==
  \A p \in Callers :
    (pc[p] = "done" /\ resp[p].delivered) => resp[p].closed

\* The path of the endpoint of a call.
opPath(c) ==
  CASE c.op = "GetCharacter" -> "/characters/profile"
    [] c.op = "GetGuild" -> "/guilds/profile"
    [] c.op = "GetRaids" -> "/raiding/static-data"
    [] c.op = "GetRaidRankings" -> "/raiding/raid-rankings"
    [] c.op = "GetGuildBossKill" -> "/guilds/boss-kill"
    [] c.op = "GetBossRankings" -> "/raiding/boss-rankings"
    [] c.op = "GetHallOfFame" -> "/raiding/hall-of-fame"
    [] c.op = "GetRaidProgression" -> "/raiding/progression"

\* The URL a call running alone builds from the query q for the client c.
aloneUrl(c, q) == withAccessKey(c, reqUrlOf(c, opPath(q), opParams(q)))

\* What a call running alone returns for the client c, the query q, the
\* state x of its own context and its own response r.
aloneOutcome(c, q, x, r) ==
  IF validationError(q) # NilError
    THEN [result |-> NilResult, err |-> validationError(q)]
  ELSE IF requestError(c, reqUrlOf(c, opPath(q), opParams(q))) # NilError
    THEN [result |-> NilResult,
          err |-> requestError(c, reqUrlOf(c, opPath(q), opParams(q)))]
  ELSE IF ~r.delivered
    THEN [result |-> NilResult,
          err |-> IF x = "live" THEN "connection refused"
                  ELSE ErrHttpTimeout]
  ELSE IF r.read = "err"
    THEN [result |-> NilResult, err |-> ErrReadingBody]
  ELSE IF r.StatusCode # 200
    THEN [result |-> NilResult, err |-> wrapApiError(apiErrorResponse(r.Body))]
  ELSE decodeBody(q.op, r.Body)

\* C29: with calls of several callers running at the same time on one
\* client, the request URL of each call and what it returns are those of the
\* call running alone: they follow from its own query, the client, its own
\* context and its own response.
C29_AsIfAlone ==
  \A p \in Callers :
    /\ req[p].sent => req[p].url = aloneUrl(client, call[p])
    /\ pc[p] = "done" => ret[p] = aloneOutcome(client, call[p], ctx[p], resp[p])

C29_Witness ==
  \E p, o \in Callers :
    /\ pc[p] = "done"
    /\ call[p].op = "GetCharacter"
    /\ resp[p].delivered
    /\ ret[p].err = NilError
    /\ pc[o] = "reading"
    /\ call[o].op = "GetGuild"
    /\ resp[o].StatusCode = 404
    /\ req[o].url # req[p].url

====
